---- MODULE Spec2Model ----
(***************************************************************************)
(* Model of the product-creation pipeline of the magic shop:               *)
(*   app/services/product.py  (ProductService)                             *)
(*   app/services/gemini.py   (GeminiClient)                               *)
(*   app/services/image.py    (convert_png_to_jpg)                         *)
(*   app/models/product.py    (Product), app/database.py (SQLite sessions) *)
(*                                                                         *)
(* Every invocation of create_product_from_description is a run with its   *)
(* own SQLAlchemy session.  A run advances one pipeline step at a time;    *)
(* the backend, the converter and the store answer nondeterministically.   *)
(***************************************************************************)
EXTENDS Integers, Sequences, FiniteSets, TLC

\* ------------------------------------------------------------------ bounds
NumRuns == 2          \* invocations of create_product_from_description
MaxClock == 2         \* last instant of the UTC clock, in ticks
TicksPerSecond == 2   \* clock ticks inside one second of strftime
MaxTagLen == 6        \* longest tags list the metadata backend returns

Runs == 1..NumRuns

\* -------------------------------------------------------------------- text
\* A Python str is a sequence of tokens; " " and "\n" are whitespace.
W(s) == [k |-> s, n |-> 0]
WS == W(" ")
NL == W("\n")
\* the triple-backtick marker that opens or closes a fenced code block
Fence == W("FENCE")
\* the text of the JSON value DocOf(i); no word W(s) is such a text
JsonTok(i) == [k |-> "JSON", n |-> i + 1]

IsWs(t) == t.k \in {" ", "\n"}

RECURSIVE lstrip(_)
lstrip(s) == IF s = <<>> THEN s
             ELSE IF IsWs(Head(s)) THEN lstrip(Tail(s)) ELSE s

RECURSIVE rstrip(_)
rstrip(s) == IF s = <<>> THEN s
             ELSE IF IsWs(s[Len(s)]) THEN rstrip(SubSeq(s, 1, Len(s) - 1)) ELSE s

\* str.strip()
strip(s) == rstrip(lstrip(s))

\* str.startswith(fence marker)
startswith_fence(s) == s # <<>> /\ Head(s) = Fence

\* str.split(newline): the list of lines
RECURSIVE split_nl(_)
split_nl(s) ==
    IF \A i \in 1..Len(s) : s[i] # NL THEN <<s>>
    ELSE LET i == CHOOSE j \in 1..Len(s) :
                      s[j] = NL /\ \A m \in 1..(j - 1) : s[m] # NL
         IN  <<SubSeq(s, 1, i - 1)>> \o split_nl(SubSeq(s, i + 1, Len(s)))

\* newline.join(lines)
RECURSIVE join_nl(_)
join_nl(lines) ==
    IF lines = <<>> THEN <<>>
    ELSE IF Len(lines) = 1 THEN lines[1]
    ELSE lines[1] \o <<NL>> \o join_nl(Tail(lines))

\* lines[1:-1]
slice_1_m1(lines) == SubSeq(lines, 2, Len(lines) - 1)

\* -------------------------------------------------------------- exceptions
Exc(t, m) == [type |-> t, msg |-> m]
NoExc == Exc("", <<>>)

\* raise ProductCreationError(error_msg) from e
RaiseFrom(m, e) == [type |-> "ProductCreationError", msg |-> m, cause |-> e]
NotRaised == [type |-> "", msg |-> <<>>, cause |-> NoExc]

\* ------------------------------------------------------------ JSON values
\* A JSON scalar keeps its literal text; t tells a string from a number.
JStr(s) == [t |-> "str", s |-> s]
JNum(s) == [t |-> "num", s |-> s]

RequiredFields == <<"name", "category", "tags", "rarity", "price">>

TagName(i) == CASE i = 1 -> "dragon" [] i = 2 -> "fire" [] i = 3 -> "sword"
                [] i = 4 -> "legendary" [] i = 5 -> "ancient" [] i = 6 -> "cursed"
                [] OTHER -> "rune"

TagList(n) == [i \in 1..n |-> TagName(i)]

MkDoc(keys, price, isList, tags) ==
    [keys |-> keys, name |-> JStr("Dragon Fire Sword"), category |-> JStr("Weapons"),
     rarity |-> JStr("Legendary"), price |-> price, tagsIsList |-> isList, tags |-> tags,
     isObject |-> TRUE]

AllKeys == {RequiredFields[i] : i \in 1..Len(RequiredFields)}

\* The JSON objects the metadata backend can answer with.
Docs ==
    [n \in 0..MaxTagLen |-> MkDoc(AllKeys, JStr("10000 Gold Coins"), TRUE, TagList(n))]

NumericPriceDoc == MaxTagLen + 1
MissingFieldDoc == MaxTagLen + 2
TagsNotListDoc == MaxTagLen + 3
\* a JSON array of the five field names: not an object
NotAnObjectDoc == MaxTagLen + 4

DocOf(i) ==
    IF i \in 0..MaxTagLen THEN Docs[i]
    ELSE IF i = NumericPriceDoc THEN MkDoc(AllKeys, JNum("500"), TRUE, TagList(0))
    ELSE IF i = MissingFieldDoc THEN MkDoc(AllKeys \ {"rarity"}, JStr("5 Gold"), TRUE, TagList(2))
    ELSE IF i = TagsNotListDoc THEN MkDoc(AllKeys, JStr("5 Gold"), FALSE, <<>>)
    ELSE [MkDoc(AllKeys, JStr("5 Gold"), FALSE, <<>>) EXCEPT !.isObject = FALSE]

DocIds == 0..NotAnObjectDoc

\* the token is the text of a JSON value
IsJsonTok(t) == t.k = "JSON" /\ t.n - 1 \in DocIds

\* --------------------------------------------------------- backend answers
\* One answer of client.models.generate_content: it raises, returns None,
\* returns a response without text, or returns a response with text.
Raises(m) == [raises |-> TRUE, err |-> m, present |-> FALSE, hasText |-> FALSE, text |-> <<>>]
NoResponse == [raises |-> FALSE, err |-> <<>>, present |-> FALSE, hasText |-> FALSE, text |-> <<>>]
NoText == [raises |-> FALSE, err |-> <<>>, present |-> TRUE, hasText |-> FALSE, text |-> <<>>]
Text(t) == [raises |-> FALSE, err |-> <<>>, present |-> TRUE, hasText |-> TRUE, text |-> t]

\* not response or not response.text
IsEmptyResponse(resp) == ~resp.present \/ ~resp.hasText \/ resp.text = <<>>

\* The result of a call: a value, or the exception it raised.
Ok(v) == [ok |-> TRUE, value |-> v, exc |-> NoExc]
Raise(e) == [ok |-> FALSE, value |-> <<>>, exc |-> e]

\* GeminiClient.generate_description
generate_description(one_line_input, resp) ==
    IF resp.raises
    THEN Raise(Exc("GeminiAPIError", <<"Failed to generate description: ">> \o resp.err))
    ELSE IF IsEmptyResponse(resp)
    THEN Raise(Exc("GeminiAPIError",
                   <<"Failed to generate description: ",
                     "Empty response from Gemini API for description generation">>))
    ELSE Ok(strip(resp.text))

\* The method as it would be were the exception of the transport let through.
generate_image_prompt_unwrapped(desc, resp) ==
    IF resp.raises
    THEN Raise(Exc("ServerError", resp.err))
    ELSE IF IsEmptyResponse(resp)
    THEN Raise(Exc("GeminiAPIError",
                   <<"Failed to generate image prompt: ",
                     "Empty response from Gemini API for image prompt generation">>))
    ELSE Ok(strip(resp.text))

\* GeminiClient.generate_image_prompt
generate_image_prompt(desc, resp) ==
    IF resp.raises
    THEN Raise(Exc("GeminiAPIError", <<"Failed to generate image prompt: ">> \o resp.err))
    ELSE IF IsEmptyResponse(resp)
    THEN Raise(Exc("GeminiAPIError",
                   <<"Failed to generate image prompt: ",
                     "Empty response from Gemini API for image prompt generation">>))
    ELSE Ok(strip(resp.text))

\* ------------------------------------------------------ metadata extraction
\* json.loads: whitespace around the single JSON value is allowed; anything
\* else is a JSONDecodeError.
NonWs(s) == SelectSeq(s, LAMBDA t : ~IsWs(t))

json_parses(s) == Len(NonWs(s)) = 1 /\ IsJsonTok(NonWs(s)[1])

json_loads(s) == DocOf(NonWs(s)[1].n - 1)

\* str(e) of the JSONDecodeError: no value where one is expected, or text
\* after the value
json_error(s) ==
    IF NonWs(s) # <<>> /\ IsJsonTok(NonWs(s)[1]) THEN "Extra data" ELSE "Expecting value"

\* The validation loop as it would be were no field required.
FirstMissingIgnored(doc) == 0

\* the first of the required fields that the object lacks, 0 when none
FirstMissing(doc) ==
    IF \A i \in 1..Len(RequiredFields) : RequiredFields[i] \in doc.keys THEN 0
    ELSE CHOOSE i \in 1..Len(RequiredFields) :
            /\ RequiredFields[i] \notin doc.keys
            /\ \A j \in 1..(i - 1) : RequiredFields[j] \in doc.keys

\* metadata['tags'][:5]
first5(tags) == SubSeq(tags, 1, IF Len(tags) < 5 THEN Len(tags) ELSE 5)

\* The normalization as it would be were the list filled up to 2 tags.
normalize_tags_filled(tags) ==
    first5(IF Len(tags) = 0 THEN <<"Magical", "Magical">>
           ELSE IF Len(tags) = 1 THEN Append(tags, "Magical") ELSE tags)

\* append 'Magical' when there are fewer than 2 tags, then keep the first 5
normalize_tags(tags) ==
    first5(IF Len(tags) < 2 THEN Append(tags, "Magical") ELSE tags)

\* The cleaning as it would be were only the opening line removed.
clean_response_keeps_last_line(text) ==
    LET response_text == strip(text)
    IN  IF startswith_fence(response_text)
        THEN join_nl(Tail(split_nl(response_text)))
        ELSE response_text

\* the text handed to json.loads: stripped, a fenced code block unwrapped
clean_response(text) ==
    LET response_text == strip(text)
    IN  IF startswith_fence(response_text)
        THEN join_nl(slice_1_m1(split_nl(response_text)))
        ELSE response_text

NoMetadata ==
    [name |-> JStr(""), category |-> JStr(""), tags |-> <<>>, rarity |-> JStr(""),
     price |-> JStr("")]

MetaOk(m) == [ok |-> TRUE, value |-> m, exc |-> NoExc]
MetaRaise(e) == [ok |-> FALSE, value |-> NoMetadata, exc |-> e]

\* ProductService._extract_metadata
extract_metadata(resp) ==
    IF resp.raises
    THEN MetaRaise(Exc("ProductCreationError", <<"Failed to extract metadata: ">> \o resp.err))
    ELSE IF IsEmptyResponse(resp)
    THEN MetaRaise(Exc("ProductCreationError",
                       <<"Failed to extract metadata: ",
                         "Empty response from Gemini for metadata extraction">>))
    ELSE LET response_text == clean_response(resp.text)
         IN  IF ~json_parses(response_text)
             THEN MetaRaise(Exc("ProductCreationError",
                                <<"Failed to parse metadata JSON: ",
                                  json_error(response_text)>>))
             ELSE LET doc == json_loads(response_text)
                  IN  IF FirstMissing(doc) # 0
                      THEN MetaRaise(Exc("ProductCreationError",
                                         <<"Failed to extract metadata: ",
                                           "Missing required field in metadata: ",
                                           RequiredFields[FirstMissing(doc)]>>))
                      ELSE IF ~doc.isObject
                      THEN MetaRaise(Exc("ProductCreationError",
                                         <<"Failed to extract metadata: ",
                                           "list indices must be integers or slices, not str">>))
                      ELSE IF ~doc.tagsIsList
                      THEN MetaRaise(Exc("ProductCreationError",
                                         <<"Failed to extract metadata: ",
                                           "Tags must be a list">>))
                      ELSE MetaOk([name |-> doc.name, category |-> doc.category,
                                   tags |-> normalize_tags(doc.tags),
                                   rarity |-> doc.rarity, price |-> doc.price])

\* --------------------------------------------------------- image generation
\* A chunk of generate_content_stream.  candidates, content and parts may be
\* None; a part carries inline_data (with data, possibly empty) or text.
ImagePart(d) == [inline |-> TRUE, data |-> d]
TextPart == [inline |-> FALSE, data |-> ""]
Chunk(parts) == [candidates |-> TRUE, content |-> TRUE, hasParts |-> TRUE, parts |-> parts]
EmptyChunk == [candidates |-> FALSE, content |-> FALSE, hasParts |-> FALSE, parts |-> <<>>]

\* The stream: its chunks, then a normal end or an exception of the transport.
Stream(chunks) == [chunks |-> chunks, fails |-> FALSE, err |-> <<>>]
BrokenStream(chunks, m) == [chunks |-> chunks, fails |-> TRUE, err |-> m]

\* The body of the for loop of generate_image for one chunk: the chunk is
\* skipped, its first part carries inline data, or indexing the first part of
\* an empty parts list raises IndexError.  Only parts[0] is looked at.
inspect_chunk(chunk) ==
    IF ~chunk.candidates \/ ~chunk.content \/ ~chunk.hasParts
    THEN [kind |-> "skip", data |-> ""]
    ELSE IF chunk.parts = <<>>
    THEN [kind |-> "IndexError", data |-> ""]
    ELSE IF chunk.parts[1].inline /\ chunk.parts[1].data # ""
    THEN [kind |-> "image", data |-> chunk.parts[1].data]
    ELSE [kind |-> "skip", data |-> ""]

\* The for loop of generate_image: the data of the first chunk whose first
\* part carries inline data, an IndexError on a chunk with an empty parts
\* list, or the end of the stream.
RECURSIVE scan_chunks(_)
scan_chunks(chunks) ==
    IF chunks = <<>> THEN [kind |-> "end", data |-> ""]
    ELSE IF inspect_chunk(Head(chunks)).kind = "skip" THEN scan_chunks(Tail(chunks))
    ELSE inspect_chunk(Head(chunks))

\* A file: raw bytes written by generate_image, or a JPEG written by the
\* raster converter from decoded pixels.
RawFile(d) == [fmt |-> "raw", data |-> d, quality |-> 0]
JpegFile(d, q) == [fmt |-> "jpeg", data |-> d, quality |-> q]
Directory == [fmt |-> "dir", data |-> "", quality |-> 0]

\* A path: image_dir / f"product_{id}_{timestamp}.{ext}", and the same shape
\* for the string f"/images/product_{id}_{timestamp}.jpg" read as a path.  A
\* directory is the path without a file name.
PathOf(dir, id, ts, ext) == [dir |-> dir, id |-> id, ts |-> ts, ext |-> ext]
EmptyPath == PathOf("", 0, 0, "")

\* Path.parent
parent(path) == PathOf(path.dir, 0, 0, "")

\* Path.mkdir(parents=True, exist_ok=True)
mkdir(fs, dir) == IF dir \in DOMAIN fs THEN fs ELSE (dir :> Directory) @@ fs

\* The except clause of generate_image
image_error(m) == Exc("GeminiAPIError", <<"Failed to generate image: ">> \o m)

\* GeminiClient.generate_image on the file system fs
generate_image(fs, prompt, output_path, stream) ==
    LET found == scan_chunks(stream.chunks)
        made == mkdir(fs, parent(output_path))
    IN  IF found.kind = "image"
        THEN [ok |-> TRUE, exc |-> NoExc, fs |-> (output_path :> RawFile(found.data)) @@ made]
        ELSE IF found.kind = "IndexError"
        THEN [ok |-> FALSE, fs |-> made, exc |-> image_error(<<"list index out of range">>)]
        ELSE IF stream.fails
        THEN [ok |-> FALSE, fs |-> made, exc |-> image_error(stream.err)]
        ELSE [ok |-> FALSE, fs |-> made,
              exc |-> image_error(<<"No image data received from Gemini API">>)]

\* ----------------------------------------------------------- raster converter
\* Image.open decodes the payloads that are images.
Decodable(file) == file.data \in {"PNG_RGBA", "PNG_RGB"}

\* if not 1 <= quality <= 100
MinQuality == 1
MaxQuality == 100

\* The last except clause as it would be were the exception raised again.
conversion_error_unwrapped(m) == Exc("UnidentifiedImageError", m)

\* The last except clause of convert_png_to_jpg: every exception other than
\* FileNotFoundError is wrapped.
conversion_error(m) == Exc("ImageConversionError", <<"Failed to convert PNG to JPG: ">> \o m)

\* The converter as it would be were the source bytes copied, not decoded.
convert_copies_bytes(fs, png_path, jpg_path, quality) ==
    IF png_path \notin DOMAIN fs
    THEN [ok |-> FALSE, fs |-> fs,
          exc |-> Exc("FileNotFoundError", <<"PNG file not found">>)]
    ELSE [ok |-> TRUE, exc |-> NoExc, fs |-> (jpg_path :> fs[png_path]) @@ fs]

\* convert_png_to_jpg on the file system fs
convert_png_to_jpg(fs, png_path, jpg_path, quality) ==
    IF png_path \notin DOMAIN fs
    THEN [ok |-> FALSE, fs |-> fs,
          exc |-> Exc("FileNotFoundError", <<"PNG file not found">>)]
    ELSE IF ~(MinQuality <= quality /\ quality <= MaxQuality)
    THEN [ok |-> FALSE, fs |-> fs,
          exc |-> Exc("ValueError", <<"Quality must be between 1 and 100">>)]
    ELSE IF ~Decodable(fs[png_path])
    THEN [ok |-> FALSE, fs |-> mkdir(fs, parent(jpg_path)),
          exc |-> conversion_error(<<"cannot identify image file">>)]
    ELSE [ok |-> TRUE, exc |-> NoExc,
          fs |-> (jpg_path :> JpegFile(fs[png_path].data, quality)) @@
                     mkdir(fs, parent(jpg_path))]

\* ------------------------------------------------------------------- paths
\* Path.with_suffix
with_suffix(path, ext) == [path EXCEPT !.ext = ext]

\* datetime.utcnow().strftime('%Y%m%d_%H%M%S'): the second of the instant
strftime(instant) == instant \div TicksPerSecond

\* ------------------------------------------------------------------- store
\* Product: the mapped object, and the row of the products table.
NoProduct ==
    [id |-> 0, name |-> JStr(""), description |-> <<>>, image_path |-> EmptyPath,
     price |-> JStr(""), category |-> JStr(""), tags |-> <<>>, rarity |-> JStr(""),
     created_at |-> 0]

\* A String/Text column of SQLite has TEXT affinity: a number bound to it is
\* stored, and read back, as its text.
as_text(v) == JStr(v.s)

\* The row that an INSERT or UPDATE of the object leaves in the table.
RowOf(obj) ==
    [obj EXCEPT !.name = as_text(obj.name), !.price = as_text(obj.price),
                !.category = as_text(obj.category), !.rarity = as_text(obj.rarity)]

\* ------------------------------------------------------------------- state
VARIABLES
    pc,           \* pc[r]: the pipeline state of run r
    description,  \* description[r]: the text returned by step 1
    image_prompt, \* image_prompt[r]: the text returned by step 2
    metadata,     \* metadata[r]: the record returned by step 3
    product,      \* product[r]: the Product object of run r
    timestamp,    \* timestamp[r]: the second used in the file names of run r
    raised,       \* raised[r]: the exception raised to the caller of run r
    failedAt,     \* failedAt[r]: the step in which run r failed, 0 if none
    calls,        \* calls[r]: the calls run r has made, in order
    before,       \* before[r]: the rows listed before run r was invoked, when
                  \* the runs are invoked one after the other
    products,     \* the committed rows of the products table
    pending,      \* pending[r]: the rows flushed but not committed by session r
    writer,       \* the run holding the write lock of the SQLite file, 0 if none
    files,        \* the file system: path -> file
    writes,       \* every write of a file: the path and the run that wrote it
    clock,        \* the UTC clock, in ticks
    unit,         \* a call of one service function on its own: the function,
                  \* its inputs, the file system and the result
    app           \* the web application: whether /images is mounted, and for
                  \* every request the form value received and the status sent

\* the state of the pipeline runs
pipeline == <<pc, description, image_prompt, metadata, product, timestamp, raised,
              failedAt, calls, before, products, pending, writer, files, writes,
              clock>>

vars == <<pipeline, unit, app>>

\* Config.get_image_dir(): DATA_DIR / 'images', DATA_DIR defaulting to /data
ImageDir == "/data/images"

\* The one-line ideas the route passes on (stripped, never empty).
OneLines == {<<W("a magical sword")>>}

\* What the backend can answer to the description request.
DescriptionAnswers ==
    {Raises(<<"429 quota exceeded">>),
     Text(<<WS, W("A magnificent sword forged in dragon fire."), NL>>)}

\* What the backend can answer to the image-prompt request.
ImagePromptAnswers ==
    {NoResponse,
     Text(<<W("A glowing magical sword with dragon motifs"), WS>>)}

\* The JSON objects that fail the validation, answered bare in the pipeline
\* runs; the answer that passes is the fenced one below, a number as price
\* and an empty tags list.
PipelineDocs == {MissingFieldDoc, TagsNotListDoc}

\* What the backend can answer to the metadata request.
MetadataAnswers ==
    {Raises(<<"503 unavailable">>), Text(<<W("Sorry, I cannot help.")>>),
     Text(<<Fence, W("json"), NL, JsonTok(NumericPriceDoc), NL, Fence>>)}
    \cup {Text(<<JsonTok(i)>>) : i \in PipelineDocs}

\* The streams the backend can answer to the image request.
ImageStreams ==
    {Stream(<<>>),
     Stream(<<Chunk(<<TextPart>>), Chunk(<<ImagePart("PNG_RGBA")>>)>>),
     Stream(<<EmptyChunk, Chunk(<<ImagePart("NOT_AN_IMAGE")>>),
              Chunk(<<ImagePart("PNG_RGBA")>>)>>)}

\* A call in the log of a run: the operation, its text argument, whether it
\* returned, and the text it returned.
Call(op, arg, ok, ret) == [op |-> op, arg |-> arg, ok |-> ok, ret |-> ret]

\* Nothing has run yet: no local variable is set, the table is empty.
Idle ==
    /\ description = [r \in Runs |-> <<>>]
    /\ image_prompt = [r \in Runs |-> <<>>]
    /\ metadata = [r \in Runs |-> NoMetadata]
    /\ product = [r \in Runs |-> NoProduct]
    /\ timestamp = [r \in Runs |-> 0]
    /\ raised = [r \in Runs |-> NotRaised]
    /\ failedAt = [r \in Runs |-> 0]
    /\ calls = [r \in Runs |-> <<>>]
    /\ before = [r \in Runs |-> {}]
    /\ products = {}
    /\ pending = [r \in Runs |-> {}]
    /\ writer = 0
    /\ writes = {}
    /\ clock = 0

\* The service is constructed for every run: ProductService.__init__ has
\* made the image directory, create_product_from_description can be called.
Constructed ==
    /\ pc = [r \in Runs |-> "Start"]
    /\ files = mkdir(<<>>, PathOf(ImageDir, 0, 0, ""))
    /\ Idle

\* No function is called on its own.
NoCall ==
    [fn |-> "", arg |-> <<>>, fs0 |-> <<>>, fs |-> <<>>, pos |-> 0, nwrites |-> 0,
     done |-> FALSE, ret |-> <<>>]

\* The service is called directly, not through the web application.
NoApp ==
    [mounted |-> FALSE, api_key |-> TRUE, form |-> [r \in Runs |-> <<>>],
     status |-> [r \in Runs |-> 0]]

Init == Constructed /\ unit = NoCall /\ app = NoApp

\* ------------------------------------------------------------------ queries
\* The rows a query of session s sees: the committed rows and the rows of
\* its own open transaction.  Session 0 is a reader that creates nothing.
Sessions == Runs \cup {0}

Visible(s) == products \cup (IF s \in Runs THEN pending[s] ELSE {})

\* the lists that hold every row of a set exactly once
RECURSIVE Orders(_)
Orders(rows) ==
    IF rows = {} THEN {<<>>}
    ELSE UNION {{<<row>> \o rest : rest \in Orders(rows \ {row})} : row \in rows}

\* The order of the listing as it would be with created_at ascending.
IsSortedAsc(seq) ==
    \A i, j \in 1..Len(seq) : i < j => seq[i].created_at <= seq[j].created_at

\* order_by(Product.created_at.desc())
IsSortedDesc(seq) ==
    \A i, j \in 1..Len(seq) : i < j => seq[i].created_at >= seq[j].created_at

\* query(Product).order_by(Product.created_at.desc()).all() on the rows a
\* session sees: every list the query may return (rows with equal
\* created_at come in either order).
Listings(rows) == {seq \in Orders(rows) : IsSortedDesc(seq)}

\* query(Product).filter(Product.id == product_id).first() on the rows a
\* session sees: the row, or NoProduct for None
FirstById(rows, product_id) ==
    IF \E row \in rows : row.id = product_id
    THEN CHOOSE row \in rows : row.id = product_id
    ELSE NoProduct

\* What the store does with a query: it answers, or the statement fails.
Answers == [fails |-> FALSE, err |-> <<>>]
Fails(m) == [fails |-> TRUE, err |-> m]

\* The result of a query method: a value or the exception raised, and the
\* rows of the table after the call.
Retrieved(v, rows) == [ok |-> TRUE, value |-> v, exc |-> NoExc, rows |-> rows]
RetrievalError(m, rows) ==
    [ok |-> FALSE, value |-> <<>>, exc |-> Exc("ProductCreationError", m), rows |-> rows]

\* ProductService.get_all_products on the rows the session sees: every
\* result the call may have
all_products(rows, store) ==
    IF store.fails
    THEN {RetrievalError(<<"Failed to retrieve products: ">> \o store.err, rows)}
    ELSE {Retrieved(seq, rows) : seq \in Listings(rows)}

\* The method as it would be were a missing row an error (one() for first()).
product_by_id_one(rows, product_id, store) ==
    IF store.fails \/ FirstById(rows, product_id) = NoProduct
    THEN RetrievalError(<<"Failed to retrieve product ", ToString(product_id), ": ">>
                            \o store.err, rows)
    ELSE Retrieved(FirstById(rows, product_id), rows)

\* ProductService.get_product_by_id on the rows the session sees
product_by_id(rows, product_id, store) ==
    IF store.fails
    THEN RetrievalError(<<"Failed to retrieve product ", ToString(product_id), ": ">>
                            \o store.err, rows)
    ELSE Retrieved(FirstById(rows, product_id), rows)

\* ProductService.get_all_products when the store answers
get_all_products(s) == Listings(Visible(s))

\* ProductService.get_product_by_id when the store answers
get_product_by_id(s, product_id) == FirstById(Visible(s), product_id)

\* ----------------------------------------------------------------- pipeline
\* The except clauses as they would be with the generic clause alone.
create_error_generic(e) == RaiseFrom(<<"Product creation failed: ">> \o e.msg, e)

\* The except clauses of create_product_from_description.
create_error(e) ==
    IF e.type = "GeminiAPIError"
    THEN RaiseFrom(<<"AI generation failed: ">> \o e.msg, e)
    ELSE IF e.type = "ImageConversionError"
    THEN RaiseFrom(<<"Image conversion failed: ">> \o e.msg, e)
    ELSE RaiseFrom(<<"Product creation failed: ">> \o e.msg, e)

\* Rollback as it would be were the flushed rows kept in the session.
RollbackKeepsRows(r) ==
    /\ pending' = pending
    /\ writer' = IF writer = r THEN 0 ELSE writer

\* db.rollback(): the rows flushed by the session are dropped and the write
\* lock is released; nothing happens when no transaction is open.
Rollback(r) ==
    /\ pending' = [pending EXCEPT ![r] = {}]
    /\ writer' = IF writer = r THEN 0 ELSE writer

\* The transaction of db.commit() ends: nothing stays pending, the write
\* lock is released.
Committing(r) ==
    /\ pending' = [pending EXCEPT ![r] = {}]
    /\ writer' = IF writer = r THEN 0 ELSE writer

\* The except clauses as they would be were a failed run started over
\* instead of raising.
ExceptRetry(r, e, step, log) ==
    /\ pc' = [pc EXCEPT ![r] = "Start"]
    /\ calls' = [calls EXCEPT ![r] = <<>>]
    /\ Rollback(r)
    /\ description' = [description EXCEPT ![r] = <<>>]
    /\ image_prompt' = [image_prompt EXCEPT ![r] = <<>>]
    /\ metadata' = [metadata EXCEPT ![r] = NoMetadata]
    /\ product' = [product EXCEPT ![r] = NoProduct]
    /\ timestamp' = [timestamp EXCEPT ![r] = 0]
    /\ UNCHANGED <<raised, failedAt>>

\* An exception e reaches an except clause in step `step`: rollback, raise;
\* the local variables of the call are gone.
Except(r, e, step, log) ==
    /\ pc' = [pc EXCEPT ![r] = "Failed"]
    /\ raised' = [raised EXCEPT ![r] = create_error(e)]
    /\ failedAt' = [failedAt EXCEPT ![r] = step]
    /\ calls' = [calls EXCEPT ![r] = log \o <<Call("rollback", <<>>, TRUE, <<>>)>>]
    /\ Rollback(r)
    /\ description' = [description EXCEPT ![r] = <<>>]
    /\ image_prompt' = [image_prompt EXCEPT ![r] = <<>>]
    /\ metadata' = [metadata EXCEPT ![r] = NoMetadata]
    /\ product' = [product EXCEPT ![r] = NoProduct]
    /\ timestamp' = [timestamp EXCEPT ![r] = 0]

\* The argument of create_product_from_description: description.strip() of
\* the form value when the call comes from the route.
OneLineOf(r) == IF app.form[r] = <<>> THEN OneLines ELSE {strip(app.form[r])}

\* Step 1: self.gemini_client.generate_description(one_line)
DescriptionStep(r) ==
    /\ pc[r] = "Start"
    /\ \E one_line \in OneLineOf(r), resp \in DescriptionAnswers :
        LET res == generate_description(one_line, resp)
            log == calls[r] \o <<Call("generate_description", one_line, res.ok, res.value)>>
        IN  IF res.ok
            THEN /\ pc' = [pc EXCEPT ![r] = "DescriptionGenerated"]
                 /\ description' = [description EXCEPT ![r] = res.value]
                 /\ calls' = [calls EXCEPT ![r] = log]
                 /\ UNCHANGED <<image_prompt, metadata, raised, failedAt, pending, writer,
                                product, timestamp>>
            ELSE /\ Except(r, res.exc, 1, log)
    /\ UNCHANGED <<unit, app, products, files, writes, clock>>

\* Step 1 of a request that runs concurrently with others.
GenerateDescription(r) == DescriptionStep(r) /\ UNCHANGED before

\* Step 2 as it would be were a failed request made again.
GenerateImagePromptAgain(r) ==
    /\ pc[r] = "DescriptionGenerated"
    /\ \E resp \in ImagePromptAnswers :
        LET res == generate_image_prompt(description[r], resp)
            log == calls[r] \o <<Call("generate_image_prompt", description[r], res.ok, res.value)>>
        IN  /\ calls' = [calls EXCEPT ![r] = log]
            /\ IF res.ok
               THEN /\ pc' = [pc EXCEPT ![r] = "ImagePromptGenerated"]
                    /\ image_prompt' = [image_prompt EXCEPT ![r] = res.value]
               ELSE UNCHANGED <<pc, image_prompt>>
            /\ UNCHANGED <<description, metadata, raised, failedAt, pending, writer,
                           product, timestamp>>
    /\ UNCHANGED <<unit, app, before, products, files, writes, clock>>

\* Step 2: self.gemini_client.generate_image_prompt(description)
GenerateImagePrompt(r) ==
    /\ pc[r] = "DescriptionGenerated"
    /\ \E resp \in ImagePromptAnswers :
        LET res == generate_image_prompt(description[r], resp)
            log == calls[r] \o <<Call("generate_image_prompt", description[r], res.ok, res.value)>>
        IN  IF res.ok
            THEN /\ pc' = [pc EXCEPT ![r] = "ImagePromptGenerated"]
                 /\ image_prompt' = [image_prompt EXCEPT ![r] = res.value]
                 /\ calls' = [calls EXCEPT ![r] = log]
                 /\ UNCHANGED <<description, metadata, raised, failedAt, pending, writer,
                                product, timestamp>>
            ELSE /\ Except(r, res.exc, 2, log)
    /\ UNCHANGED <<unit, app, before, products, files, writes, clock>>

\* Step 3: self._extract_metadata(description)
ExtractMetadata(r) ==
    /\ pc[r] = "ImagePromptGenerated"
    /\ \E resp \in MetadataAnswers :
        LET res == extract_metadata(resp)
            log == calls[r] \o <<Call("_extract_metadata", description[r], res.ok, <<>>)>>
        IN  IF res.ok
            THEN /\ pc' = [pc EXCEPT ![r] = "MetadataExtracted"]
                 /\ metadata' = [metadata EXCEPT ![r] = res.value]
                 /\ calls' = [calls EXCEPT ![r] = log]
                 /\ UNCHANGED <<description, image_prompt, raised, failedAt, pending, writer,
                                product, timestamp>>
            ELSE /\ Except(r, res.exc, 3, log)
    /\ UNCHANGED <<unit, app, before, products, files, writes, clock>>

\* The id SQLite gives the next inserted row: one more than the largest
\* rowid in the table (INTEGER PRIMARY KEY without AUTOINCREMENT).
NextId ==
    IF products = {} THEN 1
    ELSE 1 + (CHOOSE m \in {row.id : row \in products} :
                  \A row \in products : row.id <= m)

\* The constructor call as it would be with category and rarity exchanged.
NewProductSwapped(meta, desc) ==
    [id |-> 0, name |-> meta.name, description |-> desc, image_path |-> EmptyPath,
     price |-> meta.price, category |-> meta.rarity, tags |-> meta.tags,
     rarity |-> meta.category, created_at |-> 0]

\* Product(name=..., description=..., image_path='', ...)
NewProduct(meta, desc) ==
    [id |-> 0, name |-> meta.name, description |-> desc, image_path |-> EmptyPath,
     price |-> meta.price, category |-> meta.category, tags |-> meta.tags,
     rarity |-> meta.rarity, created_at |-> 0]

png_path(r) == PathOf(ImageDir, product[r].id, timestamp[r], "png")
jpg_path(r) == PathOf(ImageDir, product[r].id, timestamp[r], "jpg")

\* convert_png_to_jpg(png_path, jpg_path, quality=85)
JpegQuality == 85

\* str(e) of the error SQLAlchemy raises for a failure of the database
\* driver: the driver's exception and message, then the statement
StoreError(m, sql) == Exc("OperationalError", <<"(sqlite3.OperationalError) ", m, sql>>)

\* Step 4, up to the statement: Product(...), db.add, and db.flush building
\* the INSERT, which evaluates the column default datetime.utcnow for
\* created_at.  The statement has not run yet: the record has no id.
BeginFlush(r) ==
    /\ pc[r] = "MetadataExtracted"
    /\ product' = [product EXCEPT ![r] =
                       [NewProduct(metadata[r], description[r]) EXCEPT !.created_at = clock]]
    /\ pc' = [pc EXCEPT ![r] = "Flushing"]
    /\ calls' = [calls EXCEPT ![r] = calls[r] \o <<Call("add", <<>>, TRUE, <<>>)>>]
    /\ UNCHANGED <<description, image_prompt, metadata, raised, failedAt, timestamp, pending,
                   writer, unit, app, before, products, files, writes, clock>>

\* Step 4, the statement: the INSERT of db.flush runs once the write lock of
\* the database file is free, takes it and gets the id; it fails when the
\* store fails (the lock stays held until the busy timeout, the disk...).
\* Time may have passed and other sessions may have committed since the
\* default of created_at was evaluated.
ReserveRecord(r) ==
    /\ pc[r] = "Flushing"
    /\ \E stored \in BOOLEAN :
        LET log == calls[r] \o <<Call("flush", <<>>, stored, <<>>)>>
            obj == [product[r] EXCEPT !.id = NextId]
        IN  IF stored
            THEN /\ writer = 0
                 /\ writer' = r
                 /\ pending' = [pending EXCEPT ![r] = {RowOf(obj)}]
                 /\ product' = [product EXCEPT ![r] = obj]
                 /\ pc' = [pc EXCEPT ![r] = "RecordReserved"]
                 /\ calls' = [calls EXCEPT ![r] = log]
                 /\ UNCHANGED <<description, image_prompt, metadata, raised, failedAt,
                                timestamp>>
            ELSE Except(r, StoreError("database is locked", "[SQL: INSERT INTO products]"),
                        4, log)
    /\ UNCHANGED <<unit, app, before, products, files, writes, clock>>

\* Step 5, the file names: timestamp = datetime.utcnow().strftime(...) and
\* the two paths made of the id and that second.
ReadTimestamp(r) ==
    /\ pc[r] = "RecordReserved"
    /\ timestamp' = [timestamp EXCEPT ![r] = strftime(clock)]
    /\ pc' = [pc EXCEPT ![r] = "TimestampRead"]
    /\ UNCHANGED <<description, image_prompt, metadata, product, raised, failedAt, calls,
                   pending, writer, unit, app, before, products, files, writes, clock>>

\* Step 5 as it would be were the description passed as the image prompt.
GenerateImageFromDescription(r) ==
    /\ pc[r] = "TimestampRead"
    /\ \E stream \in ImageStreams :
        LET res == generate_image(files, description[r], png_path(r), stream)
            log == calls[r] \o <<Call("generate_image", description[r], res.ok, <<>>)>>
        IN  /\ files' = res.fs
            /\ IF res.ok
               THEN /\ writes' = writes \cup {[path |-> png_path(r), run |-> r]}
                    /\ pc' = [pc EXCEPT ![r] = "ImageGenerated"]
                    /\ calls' = [calls EXCEPT ![r] = log]
                    /\ UNCHANGED <<description, image_prompt, metadata, raised, failedAt,
                                   pending, writer, product, timestamp>>
               ELSE /\ Except(r, res.exc, 5, log)
                    /\ UNCHANGED writes
    /\ UNCHANGED <<unit, app, before, products, clock>>

\* Step 5, the call: self.gemini_client.generate_image(image_prompt,
\* png_path) returns or raises after the stream has been read; the file it
\* writes has the name made before the call, whatever the time by then.
GenerateImage(r) ==
    /\ pc[r] = "TimestampRead"
    /\ \E stream \in ImageStreams :
        LET res == generate_image(files, image_prompt[r], png_path(r), stream)
            log == calls[r] \o <<Call("generate_image", image_prompt[r], res.ok, <<>>)>>
        IN  /\ files' = res.fs
            /\ IF res.ok
               THEN /\ writes' = writes \cup {[path |-> png_path(r), run |-> r]}
                    /\ pc' = [pc EXCEPT ![r] = "ImageGenerated"]
                    /\ calls' = [calls EXCEPT ![r] = log]
                    /\ UNCHANGED <<description, image_prompt, metadata, raised, failedAt,
                                   pending, writer, product, timestamp>>
               ELSE /\ Except(r, res.exc, 5, log)
                    /\ UNCHANGED writes
    /\ UNCHANGED <<unit, app, before, products, clock>>

\* Step 6 as it would be were the PNG removed when the conversion fails.
ConvertImageCleansUp(r) ==
    /\ pc[r] = "ImageGenerated"
    /\ LET res == convert_png_to_jpg(files, png_path(r), jpg_path(r), JpegQuality)
           log == calls[r] \o <<Call("convert_png_to_jpg", <<>>, res.ok, <<>>)>>
       IN  IF res.ok
           THEN /\ files' = res.fs
                /\ writes' = writes \cup {[path |-> jpg_path(r), run |-> r]}
                /\ pc' = [pc EXCEPT ![r] = "ImageConverted"]
                /\ calls' = [calls EXCEPT ![r] = log]
                /\ UNCHANGED <<description, image_prompt, metadata, raised, failedAt,
                               pending, writer, product, timestamp>>
           ELSE /\ files' = [p \in DOMAIN res.fs \ {png_path(r)} |-> res.fs[p]]
                /\ Except(r, res.exc, 6, log)
                /\ UNCHANGED writes
    /\ UNCHANGED <<unit, app, before, products, clock>>

\* Step 6: convert_png_to_jpg(png_path, jpg_path, quality=85)
ConvertImage(r) ==
    /\ pc[r] = "ImageGenerated"
    /\ LET res == convert_png_to_jpg(files, png_path(r), jpg_path(r), JpegQuality)
           log == calls[r] \o <<Call("convert_png_to_jpg", <<>>, res.ok, <<>>)>>
       IN  /\ files' = res.fs
           /\ IF res.ok
              THEN /\ writes' = writes \cup {[path |-> jpg_path(r), run |-> r]}
                   /\ pc' = [pc EXCEPT ![r] = "ImageConverted"]
                   /\ calls' = [calls EXCEPT ![r] = log]
                   /\ UNCHANGED <<description, image_prompt, metadata, raised, failedAt,
                                  pending, writer, product, timestamp>>
              ELSE /\ Except(r, res.exc, 6, log)
                   /\ UNCHANGED writes
    /\ UNCHANGED <<unit, app, before, products, clock>>

\* f"/images/{jpg_filename}"
web_path(r) == PathOf("/images", product[r].id, timestamp[r], "jpg")

\* Steps 7 and 8 as they would be were created_at set when the row is committed.
CommitStamped(r) ==
    /\ pc[r] = "ImageConverted"
    /\ \E done \in BOOLEAN :
        LET obj == [product[r] EXCEPT !.image_path = web_path(r), !.created_at = clock]
        IN  IF done
            THEN /\ products' = products \cup {RowOf(obj)}
                 /\ Committing(r)
                 /\ product' = [product EXCEPT ![r] = obj]
                 /\ pc' = [pc EXCEPT ![r] = "RowCommitted"]
                 /\ calls' = [calls EXCEPT ![r] = calls[r] \o <<Call("commit", <<>>, TRUE, <<>>)>>]
                 /\ UNCHANGED <<description, image_prompt, metadata, raised, failedAt,
                                timestamp>>
            ELSE /\ products' = products
                 /\ Except(r, StoreError("disk I/O error", ""), 7,
                           calls[r] \o <<Call("commit", <<>>, FALSE, <<>>)>>)
    /\ UNCHANGED <<unit, app, before, files, writes, clock>>

\* Steps 7 and 8: product.image_path = ..., db.commit().  The transaction
\* ends: the row is visible to every session and the write lock is free.
Commit(r) ==
    /\ pc[r] = "ImageConverted"
    /\ \E done \in BOOLEAN :
        LET obj == [product[r] EXCEPT !.image_path = web_path(r)]
        IN  IF done
            THEN /\ products' = products \cup {RowOf(obj)}
                 /\ Committing(r)
                 /\ product' = [product EXCEPT ![r] = obj]
                 /\ pc' = [pc EXCEPT ![r] = "RowCommitted"]
                 /\ calls' = [calls EXCEPT ![r] = calls[r] \o <<Call("commit", <<>>, TRUE, <<>>)>>]
                 /\ UNCHANGED <<description, image_prompt, metadata, raised, failedAt,
                                timestamp>>
            ELSE /\ products' = products
                 /\ Except(r, StoreError("disk I/O error", ""), 7,
                           calls[r] \o <<Call("commit", <<>>, FALSE, <<>>)>>)
    /\ UNCHANGED <<unit, app, before, files, writes, clock>>

\* db.refresh(product) after the commit: the attributes are read again from
\* the stored row; the SELECT may fail in the store.
Refresh(r) ==
    /\ pc[r] = "RowCommitted"
    /\ \E loaded \in BOOLEAN :
        LET log == calls[r] \o <<Call("refresh", <<product[r].id>>, loaded, <<>>)>>
        IN  IF loaded
            THEN /\ product' = [product EXCEPT ![r] = RowOf(product[r])]
                 /\ pc' = [pc EXCEPT ![r] = "Committed"]
                 /\ calls' = [calls EXCEPT ![r] = log]
                 /\ UNCHANGED <<description, image_prompt, metadata, raised, failedAt,
                                timestamp, pending, writer>>
            ELSE Except(r, StoreError("database is locked", "[SQL: SELECT FROM products]"),
                        7, log)
    /\ UNCHANGED <<unit, app, before, products, files, writes, clock>>

\* Time passes.
Tick ==
    /\ clock < MaxClock
    /\ clock' = clock + 1
    /\ UNCHANGED <<pc, description, image_prompt, metadata, product, timestamp, raised,
                   failedAt, calls, before, products, pending, writer, files, writes, unit, app>>

\* The runs of concurrent requests, each in its own session, interleave.
Next ==
    \/ \E r \in Runs : GenerateDescription(r)
    \/ \E r \in Runs : GenerateImagePrompt(r)
    \/ \E r \in Runs : ExtractMetadata(r)
    \/ \E r \in Runs : BeginFlush(r)
    \/ \E r \in Runs : ReserveRecord(r)
    \/ \E r \in Runs : ReadTimestamp(r)
    \/ \E r \in Runs : GenerateImage(r)
    \/ \E r \in Runs : ConvertImage(r)
    \/ \E r \in Runs : Commit(r)
    \/ \E r \in Runs : Refresh(r)
    \/ Tick

Spec == Init /\ [][Next]_vars

\* One step of the call of run r: the call in flight returns or raises.
StepOf(r) ==
    \/ GenerateDescription(r)
    \/ GenerateImagePrompt(r)
    \/ ExtractMetadata(r)
    \/ BeginFlush(r)
    \/ ReserveRecord(r)
    \/ ReadTimestamp(r)
    \/ GenerateImage(r)
    \/ ConvertImage(r)
    \/ Commit(r)
    \/ Refresh(r)

\* Every backend, converter and storage call eventually returns or raises.
CallsReturn == \A r \in Runs : WF_vars(StepOf(r))

\* The runs alone, without the passing of time between their steps.
FairNext == \E r \in Runs : StepOf(r)

FairSpec == Init /\ [][FairNext]_vars /\ CallsReturn

\* The runs of one caller after the other: a run is invoked when no other
\* run is in flight, and the rows listed at that moment are remembered.
Terminated(r) == pc[r] \in {"Committed", "Failed"}

Solo(r) == \A q \in Runs \ {r} : pc[q] = "Start" \/ Terminated(q)

\* Step 1 of a request made when no other request is in flight; the rows
\* that get_all_products lists at that moment are remembered.
GenerateDescriptionInTurn(r) ==
    /\ Solo(r)
    /\ DescriptionStep(r)
    /\ before' = [before EXCEPT ![r] = Visible(r)]

SeqNext ==
    \/ \E r \in Runs : GenerateDescriptionInTurn(r)
    \/ \E r \in Runs : GenerateImagePrompt(r)
    \/ \E r \in Runs : ExtractMetadata(r)
    \/ \E r \in Runs : BeginFlush(r)
    \/ \E r \in Runs : ReserveRecord(r)
    \/ \E r \in Runs : ReadTimestamp(r)
    \/ \E r \in Runs : GenerateImage(r)
    \/ \E r \in Runs : ConvertImage(r)
    \/ \E r \in Runs : Commit(r)
    \/ \E r \in Runs : Refresh(r)
    \/ Tick

SeqSpec == Init /\ [][SeqNext]_vars

\* ---------------------------------------------------------- the application
\* The requests POST /admin/create of an authenticated admin.  The handler is
\* a coroutine that runs the whole pipeline without awaiting, so the worker
\* takes the next request when the response of the last one is sent.
\* Request r is the r-th to arrive.
ImageDirPath == PathOf(ImageDir, 0, 0, "")

\* The values of the form field description.  The framework hands the value
\* received to the handler, the empty one included.
FormInputs == {<<>>, <<WS, NL>>, <<WS, W("a magical sword"), WS>>}

\* main.py at import: /images is mounted if the image directory exists.
\* api_key: GEMINI_API_KEY is set in the environment of the process.
StartApp(fs, key) ==
    [mounted |-> ImageDirPath \in DOMAIN fs, api_key |-> key,
     form |-> [r \in Runs |-> <<>>], status |-> [r \in Runs |-> 0]]

\* The application starts on a data directory with or without images/, with
\* or without the API key.
RouteInit ==
    /\ pc = [r \in Runs |-> "Received"]
    /\ files \in {<<>>, mkdir(<<>>, ImageDirPath)}
    /\ \E key \in BOOLEAN : app = StartApp(files, key)
    /\ Idle
    /\ unit = NoCall

\* the response of request q is sent
Answered(q) == app.status[q] # 0

\* The validation as it would be without the strip.
IsEmptyOnly(d) == d = <<>>

\* if not description or not description.strip()
IsBlank(d) == d = <<>> \/ strip(d) = <<>>

\* admin_create_product up to the call of the service: a blank description
\* is answered with 400; otherwise GeminiClient is constructed, which fails
\* without the API key and is answered with 500 by except Exception, then
\* ProductService, which makes the image directory, and
\* create_product_from_description is called with the stripped description.
ReceiveRequest(r) ==
    /\ pc[r] = "Received"
    /\ \A q \in 1..(r - 1) : Answered(q)
    /\ \E d \in FormInputs :
        IF IsBlank(d)
        THEN /\ pc' = [pc EXCEPT ![r] = "Rejected"]
             /\ app' = [app EXCEPT !.form[r] = d, !.status[r] = 400]
             /\ UNCHANGED files
        ELSE IF ~app.api_key
        THEN /\ pc' = [pc EXCEPT ![r] = "Errored"]
             /\ app' = [app EXCEPT !.form[r] = d, !.status[r] = 500]
             /\ UNCHANGED files
        ELSE /\ pc' = [pc EXCEPT ![r] = "Start"]
             /\ app' = [app EXCEPT !.form[r] = d]
             /\ files' = mkdir(files, ImageDirPath)
    /\ UNCHANGED <<description, image_prompt, metadata, product, timestamp, raised, failedAt,
                   calls, before, products, pending, writer, writes, clock, unit>>

\* admin_create_product after the call of the service: 200 with the success
\* fragment when it returned, 500 when it raised ProductCreationError.
Respond(r) ==
    /\ pc[r] \in {"Committed", "Failed"}
    /\ app.status[r] = 0
    /\ app' = [app EXCEPT !.status[r] = IF pc[r] = "Committed" THEN 200 ELSE 500]
    /\ UNCHANGED <<pipeline, unit>>

\* The handlers of the pages that read the store, homepage, product_detail
\* and admin_product_list: each constructs GeminiClient, which fails without
\* the API key, then ProductService, which makes the image directory, and
\* runs its query; the page is the response, nothing else changes.
ServePage ==
    /\ app.api_key
    /\ files' = mkdir(files, ImageDirPath)
    /\ UNCHANGED <<pc, description, image_prompt, metadata, product, timestamp, raised,
                   failedAt, calls, before, products, pending, writer, writes, clock, unit, app>>

RouteNext ==
    \/ \E r \in Runs : ReceiveRequest(r)
    \/ ServePage
    \/ \E r \in Runs : GenerateDescription(r)
    \/ \E r \in Runs : GenerateImagePrompt(r)
    \/ \E r \in Runs : ExtractMetadata(r)
    \/ \E r \in Runs : BeginFlush(r)
    \/ \E r \in Runs : ReserveRecord(r)
    \/ \E r \in Runs : ReadTimestamp(r)
    \/ \E r \in Runs : GenerateImage(r)
    \/ \E r \in Runs : ConvertImage(r)
    \/ \E r \in Runs : Commit(r)
    \/ \E r \in Runs : Refresh(r)
    \/ \E r \in Runs : Respond(r)
    \/ Tick

RouteSpec == RouteInit /\ [][RouteNext]_vars

\* GET of a URL under /images: StaticFiles(directory=image_dir) answers with
\* the file of that name in the image directory, if /images is mounted.
Served(url) ==
    /\ app.mounted
    /\ url.dir = "/images"
    /\ PathOf(ImageDir, url.id, url.ts, url.ext) \in DOMAIN files

TypeOK ==
    /\ pc \in [Runs -> {"Received", "Rejected", "Start", "DescriptionGenerated", "ImagePromptGenerated",
                        "MetadataExtracted", "Flushing", "RecordReserved",
                        "TimestampRead", "ImageGenerated", "ImageConverted", "RowCommitted", "Committed", "Failed", "Errored"}]
    /\ writer \in Runs \cup {0}
    /\ clock \in 0..MaxClock
    /\ \A r \in Runs : Cardinality(pending[r]) <= 1

\* ------------------------------------------------- the functions on their own
\* Each service function is also called on its own, on every input below.
MaxChunks == 2        \* longest stream of chunks the image backend sends

\* What the backend can answer to a text request.
TextAnswers ==
    {Raises(<<"429 quota exceeded">>), Raises(<<"connection reset">>), NoResponse, NoText,
     Text(<<>>), Text(<<WS, NL>>),
     Text(<<WS, W("A magnificent sword forged in dragon fire."), NL>>)}

\* The ways the backend lays out the JSON text of a metadata answer.
Layouts == {"plain", "padded", "fenced", "fenced_json", "fenced_padded", "unclosed", "one_line"}

\* the layouts that are a fenced code block: the first line is the marker,
\* with or without a language tag, the last line is the marker
FencedLayouts == {"fenced", "fenced_json", "fenced_padded"}

Laid(layout, i) ==
    CASE layout = "plain" -> <<JsonTok(i)>>
      [] layout = "padded" -> <<WS, NL, JsonTok(i), NL>>
      [] layout = "fenced" -> <<Fence, NL, JsonTok(i), NL, Fence>>
      [] layout = "fenced_json" -> <<Fence, W("json"), NL, JsonTok(i), NL, Fence>>
      [] layout = "fenced_padded" ->
            <<NL, Fence, W("json"), NL, WS, JsonTok(i), NL, NL, Fence, WS, NL>>
      [] layout = "unclosed" -> <<Fence, W("json"), NL, JsonTok(i)>>
      [] OTHER -> <<Fence, JsonTok(i), Fence>>

\* The calls of _extract_metadata: the answer of the backend, and the JSON
\* object and layout it was made of (-1 when it is not the text of one).
MetadataCalls ==
    {[resp |-> Text(Laid(layout, i)), doc |-> i, layout |-> layout] :
        i \in DocIds, layout \in Layouts}
    \cup {[resp |-> a, doc |-> -1, layout |-> ""] :
            a \in {Raises(<<"503 unavailable">>), NoResponse, NoText, Text(<<>>),
                   Text(<<WS, NL>>), Text(<<W("Sorry, I cannot help.")>>), Text(<<Fence>>),
                   Text(<<JsonTok(2), NL, JsonTok(0)>>), Text(<<W("json")>>),
                   Text(<<Fence, NL, W("json"), NL, Fence>>)}}

\* The chunks the image backend can send.
ChunkKinds ==
    {EmptyChunk, Chunk(<<>>), Chunk(<<TextPart>>), Chunk(<<ImagePart("")>>),
     Chunk(<<ImagePart("PNG_RGBA")>>), Chunk(<<ImagePart("PNG_RGB"), TextPart>>),
     Chunk(<<TextPart, ImagePart("PNG_RGB")>>)}

ChunkSeqs == UNION {[1..n -> ChunkKinds] : n \in 0..MaxChunks}

UnitStreams ==
    {Stream(c) : c \in ChunkSeqs} \cup {BrokenStream(c, <<"connection reset">>) : c \in ChunkSeqs}

\* The paths of a call on its own: the file generate_image writes, and the
\* source and the destination of convert_png_to_jpg.
OutPath == PathOf("/gen", 1, 0, "png")
SrcPath == PathOf("/in", 1, 0, "png")
DstPath == PathOf("/out", 1, 0, "jpg")

\* The file systems a call that writes path can start from: the directory
\* of path is absent, present and empty, or holds an older file at path.
DstStates(path) ==
    {<<>>, mkdir(<<>>, parent(path)),
     (path :> RawFile("OLD")) @@ mkdir(<<>>, parent(path))}

ImageCalls == {[stream |-> st, output_path |-> OutPath, fs |-> fs] :
                  st \in UnitStreams, fs \in DstStates(OutPath)}

\* The file systems a call of convert_png_to_jpg can start from: the source
\* is missing or holds an image or other bytes, next to each state of the
\* destination.
SrcStates ==
    {<<>>} \cup {(SrcPath :> RawFile(d)) @@ mkdir(<<>>, parent(SrcPath)) :
                    d \in {"PNG_RGBA", "PNG_RGB", "NOT_AN_IMAGE"}}

Qualities == {MinQuality - 1, MinQuality, JpegQuality, MaxQuality, MaxQuality + 1}

ConvertCalls == {[png_path |-> SrcPath, jpg_path |-> DstPath, quality |-> q, fs |-> a @@ b] :
                    q \in Qualities, a \in SrcStates, b \in DstStates(DstPath)}

\* The rows a query on its own can find in the table.
StoredRows ==
    {RowOf([NewProduct(extract_metadata(Text(<<JsonTok(2)>>)).value,
                       <<W("A magnificent sword forged in dragon fire.")>>)
               EXCEPT !.id = i, !.created_at = i - 1,
                      !.image_path = PathOf("/images", i, 0, "jpg")]) : i \in 1..2}

StoreAnswers == {Answers, Fails(<<"database is locked">>)}

QueryCalls ==
    {[rows |-> rows, product_id |-> i, store |-> a] :
        rows \in SUBSET StoredRows, i \in 0..3, a \in StoreAnswers}

NewCall(fn, arg, fs) ==
    [fn |-> fn, arg |-> arg, fs0 |-> fs, fs |-> fs, pos |-> 0, nwrites |-> 0,
     done |-> FALSE, ret |-> <<>>]

UnitCalls ==
    {NewCall("generate_description", [one_line |-> o, resp |-> a], <<>>) :
        o \in OneLines, a \in TextAnswers}
    \cup {NewCall("generate_image_prompt",
                  [description |-> <<W("A magnificent sword forged in dragon fire.")>>,
                   resp |-> a], <<>>) : a \in TextAnswers}
    \cup {NewCall("_extract_metadata", c, <<>>) : c \in MetadataCalls}
    \cup {NewCall("generate_image", [stream |-> c.stream, output_path |-> c.output_path], c.fs) :
            c \in ImageCalls}
    \cup {NewCall("convert_png_to_jpg",
                  [png_path |-> c.png_path, jpg_path |-> c.jpg_path, quality |-> c.quality],
                  c.fs) : c \in ConvertCalls}

    \cup {NewCall("get_product_by_id", c, <<>>) : c \in QueryCalls}
    \cup {NewCall("get_all_products", [rows |-> c.rows, store |-> c.store], <<>>) :
            c \in QueryCalls}

UnitInit == Constructed /\ unit \in UnitCalls /\ app = NoApp

Returns(res) == [unit EXCEPT !.done = TRUE, !.ret = res]

CallGenerateDescription ==
    /\ unit.fn = "generate_description" /\ ~unit.done
    /\ unit' = Returns(generate_description(unit.arg.one_line, unit.arg.resp))
    /\ UNCHANGED <<pipeline, app>>

CallGenerateImagePrompt ==
    /\ unit.fn = "generate_image_prompt" /\ ~unit.done
    /\ unit' = Returns(generate_image_prompt(unit.arg.description, unit.arg.resp))
    /\ UNCHANGED <<pipeline, app>>

CallExtractMetadata ==
    /\ unit.fn = "_extract_metadata" /\ ~unit.done
    /\ unit' = Returns(extract_metadata(unit.arg.resp))
    /\ UNCHANGED <<pipeline, app>>

CallConvert ==
    /\ unit.fn = "convert_png_to_jpg" /\ ~unit.done
    /\ LET res == convert_png_to_jpg(unit.fs, unit.arg.png_path, unit.arg.jpg_path,
                                      unit.arg.quality)
       IN  unit' = [Returns([ok |-> res.ok, exc |-> res.exc]) EXCEPT !.fs = res.fs]
    /\ UNCHANGED <<pipeline, app>>

CallGetProductById ==
    /\ unit.fn = "get_product_by_id" /\ ~unit.done
    /\ unit' = Returns(product_by_id(unit.arg.rows, unit.arg.product_id, unit.arg.store))
    /\ UNCHANGED <<pipeline, app>>

CallGetAllProducts ==
    /\ unit.fn = "get_all_products" /\ ~unit.done
    /\ \E res \in all_products(unit.arg.rows, unit.arg.store) : unit' = Returns(res)
    /\ UNCHANGED <<pipeline, app>>

\* generate_image, one iteration of its for loop at a time.  output_path's
\* directory is made, then every step takes the next chunk from the stream.
OpenStream ==
    /\ unit.fn = "generate_image" /\ ~unit.done /\ unit.pos = 0
    /\ unit' = [unit EXCEPT !.pos = 1, !.fs = mkdir(unit.fs, parent(unit.arg.output_path))]
    /\ UNCHANGED <<pipeline, app>>

\* One more chunk arrives: it is skipped, or its data is written and the
\* loop is left, or indexing its parts raises.  pos - 1 chunks were taken.
TakeChunk ==
    /\ unit.fn = "generate_image" /\ ~unit.done /\ unit.pos >= 1
    /\ unit.pos <= Len(unit.arg.stream.chunks)
    /\ LET found == inspect_chunk(unit.arg.stream.chunks[unit.pos])
       IN  unit' =
             IF found.kind = "skip" THEN [unit EXCEPT !.pos = unit.pos + 1]
             ELSE IF found.kind = "image"
             THEN [unit EXCEPT !.pos = unit.pos + 1, !.nwrites = unit.nwrites + 1,
                               !.fs = (unit.arg.output_path :> RawFile(found.data)) @@ unit.fs,
                               !.done = TRUE, !.ret = [ok |-> TRUE, exc |-> NoExc]]
             ELSE [unit EXCEPT !.pos = unit.pos + 1, !.done = TRUE,
                               !.ret = [ok |-> FALSE,
                                        exc |-> image_error(<<"list index out of range">>)]]
    /\ UNCHANGED <<pipeline, app>>

\* The stream has no more chunks: the transport failed, or it ended and no
\* image was saved.
StreamEnds ==
    /\ unit.fn = "generate_image" /\ ~unit.done /\ unit.pos >= 1
    /\ unit.pos > Len(unit.arg.stream.chunks)
    /\ unit' = [unit EXCEPT
                  !.done = TRUE,
                  !.ret = [ok |-> FALSE,
                           exc |-> IF unit.arg.stream.fails
                                   THEN image_error(unit.arg.stream.err)
                                   ELSE image_error(<<"No image data received from Gemini API">>)]]
    /\ UNCHANGED <<pipeline, app>>

UnitNext ==
    \/ CallGenerateDescription
    \/ CallGenerateImagePrompt
    \/ CallExtractMetadata
    \/ CallConvert
    \/ CallGetProductById
    \/ CallGetAllProducts
    \/ OpenStream
    \/ TakeChunk
    \/ StreamEnds

UnitSpec == UnitInit /\ [][UnitNext]_vars

\* the chunks taken from the stream so far
Consumed == IF unit.pos = 0 THEN 0 ELSE unit.pos - 1

\* ================================================================== claims
Rows(seq) == {seq[i] : i \in 1..Len(seq)}

\* the commit of run r returned
CommitDone(r) == \E i \in 1..Len(calls[r]) : calls[r][i].op = "commit" /\ calls[r][i].ok

\* C1: Atomicity.  When a run fails in step 1 (description), 2 (image
\* prompt), 3 (metadata extraction), 5 (image generation) or 6 (conversion),
\* get_all_products() after the failed call returns exactly the rows it
\* returned before the call, whatever the store held.
C1_AtomicOnFailure ==
    [][\A r \in Runs :
          (pc[r] # "Failed" /\ pc'[r] = "Failed" /\ failedAt'[r] \in {1, 2, 3, 5, 6})
              => /\ get_all_products(r)' # {}
                 /\ \A seq \in get_all_products(r)' : Rows(seq) = before'[r]]_vars

\* C1 witness: a run failed in the conversion, after it had reserved a
\* record, in a store that already held a row; its listing is as before.
C1_Witness ==
    \E r \in Runs :
        /\ pc[r] = "Failed" /\ failedAt[r] = 6
        /\ before[r] # {}
        /\ \A seq \in get_all_products(r) : Rows(seq) = before[r]

\* The rows run r has put in the store: the one it flushed and has not yet
\* committed, and the one it committed and then reloaded.
InsertedBy(r) ==
    pending[r] \cup {row \in products :
                        \E i \in 1..Len(calls[r]) :
                            calls[r][i].op = "refresh" /\ calls[r][i].arg = <<row.id>>}

\* C2: in every state of every interleaving of runs and readers, a row is
\* returned to a session other than the creating one only if the run that
\* inserted it went through its commit; the row flushed in step 4 is not
\* visible to another session before the commit, and the row of a run that
\* fails is never visible.
C2_VisibleOnlyIfRunSucceeded ==
    /\ \A r \in Runs : \A s \in Sessions \ {r} :
           InsertedBy(r) \cap Visible(s) # {} => CommitDone(r)
    /\ \A r \in Runs : \A s \in Sessions \ {r} : pending[r] \cap Visible(s) = {}
    /\ \A r \in Runs : \A s \in Sessions :
           pc[r] = "Failed" => InsertedBy(r) \cap Visible(s) = {}

\* C3: every committed row has between 2 and 5 tags, for every list the
\* metadata backend returns (the empty list and one-element lists included).
C3_TagsBetween2And5 ==
    \A row \in products : Len(row.tags) >= 2 /\ Len(row.tags) <= 5

\* C4: a failure of the metadata extraction in step 3 (empty response, parse
\* error, missing field, tags not a list) makes the creation fail with the
\* 'AI generation failed' kind, as a description or image-prompt failure does.
C4_ExtractionFailureIsAIFailure ==
    \A r \in Runs :
        (pc[r] = "Failed" /\ failedAt[r] = 3) => Head(raised[r].msg) = "AI generation failed: "

\* C5: error classification.  A GeminiAPIError in step 1, 2 or 5 is raised
\* again as 'AI generation failed', an ImageConversionError in step 6 as
\* 'Image conversion failed', every other exception as 'Product creation
\* failed' carrying the original message; the error raised is always a
\* ProductCreationError and the rollback comes before it.
C5_ErrorClassification ==
    \A r \in Runs :
        /\ pc[r] # "Failed" => raised[r] = NotRaised
        /\ pc[r] = "Failed" =>
            /\ raised[r].type = "ProductCreationError"
            /\ calls[r][Len(calls[r])].op = "rollback"
            /\ pending[r] = {}
            /\ failedAt[r] \in {1, 2, 5} =>
                  /\ raised[r].cause.type = "GeminiAPIError"
                  /\ raised[r].msg = <<"AI generation failed: ">> \o raised[r].cause.msg
            /\ failedAt[r] = 6 =>
                  /\ raised[r].cause.type = "ImageConversionError"
                  /\ raised[r].msg = <<"Image conversion failed: ">> \o raised[r].cause.msg
            /\ raised[r].cause.type \notin {"GeminiAPIError", "ImageConversionError"} =>
                  raised[r].msg = <<"Product creation failed: ">> \o raised[r].cause.msg

\* C5 witness: one run failed in the image generation, another in the store.
C5_Witness ==
    \E r, q \in Runs :
        /\ pc[r] = "Failed" /\ failedAt[r] = 5
        /\ pc[q] = "Failed" /\ failedAt[q] = 4

PipelineOrder ==
    <<"generate_description", "generate_image_prompt", "_extract_metadata", "add", "flush",
      "generate_image", "convert_png_to_jpg", "commit", "refresh">>

\* the calls of run r without the rollback that ends a failed run
Steps(r) ==
    IF calls[r] # <<>> /\ calls[r][Len(calls[r])].op = "rollback"
    THEN SubSeq(calls[r], 1, Len(calls[r]) - 1)
    ELSE calls[r]

\* C6: the steps run in the order description, image prompt, metadata,
\* insert and flush, image generation, conversion, commit; a step starts
\* only after the one before it succeeded; image-prompt generation and
\* metadata extraction receive the text description generation returned,
\* image generation the text image-prompt generation returned; nothing runs
\* after a failed step.
C6_StrictOrder ==
    \A r \in Runs :
        LET steps == Steps(r)
        IN  /\ Len(steps) <= Len(PipelineOrder)
            /\ \A i \in 1..Len(steps) : steps[i].op = PipelineOrder[i]
            /\ \A i \in 1..(Len(steps) - 1) : steps[i].ok
            /\ \A i \in 1..Len(steps) :
                   /\ steps[i].op \in {"generate_image_prompt", "_extract_metadata"}
                          => steps[i].arg = steps[1].ret
                   /\ steps[i].op = "generate_image" => steps[i].arg = steps[2].ret
            /\ pc[r] = "Failed" <=> (steps # <<>> /\ ~steps[Len(steps)].ok)
            /\ pc[r] = "Failed" <=> steps # calls[r]
            /\ pc[r] = "Committed" <=> (Len(steps) = Len(PipelineOrder) /\ steps[Len(steps)].ok)

\* C6 witness: one run went through every step, another stopped after the
\* image generation failed.
C6_Witness ==
    \E r, q \in Runs :
        /\ pc[r] = "Committed" /\ Len(calls[r]) = Len(PipelineOrder)
        /\ pc[q] = "Failed" /\ failedAt[q] = 5 /\ Len(calls[q]) = 7

\* C7: every committed row has an image_path /images/{id}_{timestamp}.jpg
\* with its own id, never the empty provisional one, and the file
\* {id}_{timestamp}.jpg is in the image directory and is the output of the
\* raster converter.
C7_ImagePathOfCommittedRow ==
    \A row \in products :
        /\ row.image_path # EmptyPath
        /\ row.image_path.dir = "/images"
        /\ row.image_path.ext = "jpg"
        /\ row.image_path.id = row.id
        /\ LET file == PathOf(ImageDir, row.id, row.image_path.ts, "jpg")
           IN  /\ file \in DOMAIN files
               /\ files[file].fmt = "jpeg"
               /\ files[file].quality = JpegQuality

\* C7 witness: a run has committed its row and the converted file of that
\* row is in the image directory.
C7_Witness ==
    \E r \in Runs :
        /\ pc[r] = "Committed" /\ product[r] \in products
        /\ PathOf(ImageDir, product[r].id, timestamp[r], "jpg") \in DOMAIN files

\* C8: after a successful creation the image_path of the returned product,
\* read as a file system path, names an existing .jpg file, and the same
\* path with suffix .png names an existing file too.
C8_ImagePathIsAFile ==
    \A r \in Runs :
        pc[r] = "Committed" =>
            /\ product[r].image_path.ext = "jpg"
            /\ product[r].image_path \in DOMAIN files
            /\ with_suffix(product[r].image_path, "png") \in DOMAIN files

\* C9 as stated: after a successful creation get_product_by_id(product.id)
\* returns name, category, tags, rarity and price equal to the extracted
\* metadata, the description that description generation returned and the
\* image_path set in step 7.
C9_RoundTripExact ==
    \A r \in Runs : \A s \in Sessions :
        pc[r] = "Committed" =>
            LET got == get_product_by_id(s, product[r].id)
            IN  /\ got.name = metadata[r].name
                /\ got.category = metadata[r].category
                /\ got.tags = metadata[r].tags
                /\ got.rarity = metadata[r].rarity
                /\ got.price = metadata[r].price
                /\ got.description = description[r]
                /\ got.image_path = web_path(r)

\* C9 amended: after a successful creation get_product_by_id(product.id)
\* returns the normalized tags, the description and the image_path of step 7
\* unchanged, and name, category, rarity and price as strings with the text
\* of the extracted values: equal to them when the backend gave strings,
\* the text of the number when it gave a number.
C9_RoundTripAsStored ==
    \A r \in Runs : \A s \in Sessions :
        pc[r] = "Committed" =>
            LET got == get_product_by_id(s, product[r].id)
                same(stored, extracted) ==
                    /\ stored.t = "str"
                    /\ stored.s = extracted.s
                    /\ extracted.t = "str" => stored = extracted
            IN  /\ got.id = product[r].id
                /\ same(got.name, metadata[r].name)
                /\ same(got.category, metadata[r].category)
                /\ same(got.rarity, metadata[r].rarity)
                /\ same(got.price, metadata[r].price)
                /\ got.tags = metadata[r].tags
                /\ got.description = description[r]
                /\ got.image_path = web_path(r)

\* C9 witness: a committed run whose backend gave the price as a number.
C9_Witness ==
    \E r \in Runs :
        /\ pc[r] = "Committed"
        /\ metadata[r].price = JNum("500")
        /\ get_product_by_id(0, product[r].id).price = JStr("500")

\* C10: across every sequence and interleaving of runs, those rolled back
\* after reserving an id included, no two runs derive the same
\* {id}_{timestamp} file names, so no run writes a file another run wrote.
C10_NoSharedFileNames ==
    \A w1, w2 \in writes : w1.path = w2.path => w1.run = w2.run

\* the calls of one operation that run r has made
CallsOf(r, op) == {i \in 1..Len(calls[r]) : calls[r][i].op = op}

\* the five operations of the pipeline that reach a backend or the converter
Operations ==
    {"generate_description", "generate_image_prompt", "_extract_metadata", "generate_image",
     "convert_png_to_jpg"}

\* C11: no retries.  In every state of every run, each of description
\* generation, image-prompt generation, the metadata request, image
\* generation and image conversion has been invoked at most once, and a run
\* that succeeded has invoked each exactly once.
C11_NoRetries ==
    \A r \in Runs : \A op \in Operations :
        LET n == Cardinality(CallsOf(r, op))
        IN  /\ n <= 1
            /\ pc[r] = "Committed" => n = 1

\* C11 witness: one run succeeded and another one failed in a backend call
\* that it had made once.
C11_Witness ==
    \E r, q \in Runs :
        /\ pc[r] = "Committed" /\ \A op \in Operations : Cardinality(CallsOf(r, op)) = 1
        /\ pc[q] = "Failed" /\ failedAt[q] = 2
        /\ Cardinality(CallsOf(q, "generate_image_prompt")) = 1
        /\ ~calls[q][Len(calls[q]) - 1].ok

\* a call of fn on its own has returned or raised
Called(fn) == unit.fn = fn /\ unit.done

\* _extract_metadata returned a record for the JSON object the backend sent
Extracted == Called("_extract_metadata") /\ unit.ret.ok /\ unit.arg.doc \in DocIds

\* C12: tag normalization.  Whenever _extract_metadata returns a record, for
\* the tags list of the JSON object: a list of 2 to 5 elements is returned
\* unchanged, a longer list is returned as its first 5 elements in order, and
\* a list of fewer than 2 elements is returned with "Magical" appended once.
C12_TagNormalization ==
    Extracted =>
        LET tags == DocOf(unit.arg.doc).tags
            out == unit.ret.value.tags
        IN  /\ (2 <= Len(tags) /\ Len(tags) <= 5) => out = tags
            /\ Len(tags) > 5 => out = <<tags[1], tags[2], tags[3], tags[4], tags[5]>>
            /\ Len(tags) < 2 => out = tags \o <<"Magical">>

\* C12 witness: a record was returned for a list of more than 5 tags.
C12_Witness ==
    /\ Extracted
    /\ Len(DocOf(unit.arg.doc).tags) > 5
    /\ Len(unit.ret.value.tags) = 5

\* a JSON object that has the five fields, tags being a list
ValidDoc(i) ==
    /\ i \in DocIds
    /\ DocOf(i).isObject /\ DocOf(i).tagsIsList
    /\ AllKeys \subseteq DocOf(i).keys

\* C13: for every valid metadata JSON text, when the backend sends it inside
\* a fenced code block (first line the marker, with or without a language
\* tag, last line the marker), _extract_metadata succeeds and returns the
\* record it returns for the text without the fence.
C13_FencedSameAsUnfenced ==
    (Called("_extract_metadata") /\ unit.arg.layout \in FencedLayouts
        /\ ValidDoc(unit.arg.doc))
    => /\ unit.ret.ok
       /\ extract_metadata(Text(<<JsonTok(unit.arg.doc)>>)).ok
       /\ unit.ret.value = extract_metadata(Text(<<JsonTok(unit.arg.doc)>>)).value

\* C13 witness: a fenced block with a language tag and blank lines around
\* the JSON text was unwrapped and gave a record.
C13_Witness ==
    /\ Called("_extract_metadata") /\ unit.arg.layout = "fenced_padded"
    /\ ValidDoc(unit.arg.doc)
    /\ startswith_fence(strip(unit.arg.resp.text))
    /\ unit.ret.ok /\ unit.ret.value.price = JNum("500")

\* the text the backend sent is, once stripped and unwrapped, the text of
\* one JSON value
SentJson ==
    /\ unit.arg.doc \in DocIds
    /\ unit.arg.layout \in {"plain", "padded"} \cup FencedLayouts

\* C14: _extract_metadata returns a record only when the backend text is
\* non-empty, parses as JSON, has the five keys name, category, tags, rarity
\* and price, and tags is a list; an empty response, a parse error, an absent
\* key or a tags value that is not a list each make it raise
\* ProductCreationError, and a call that raises returns no record.
C14_RecordOnlyFromValidJson ==
    Called("_extract_metadata") =>
        /\ unit.ret.ok =>
              /\ unit.arg.resp.present /\ unit.arg.resp.hasText /\ unit.arg.resp.text # <<>>
              /\ SentJson
              /\ AllKeys \subseteq DocOf(unit.arg.doc).keys
              /\ DocOf(unit.arg.doc).tagsIsList
        /\ (\/ ~unit.arg.resp.present \/ ~unit.arg.resp.hasText \/ unit.arg.resp.text = <<>>
            \/ ~SentJson
            \/ ~(AllKeys \subseteq DocOf(unit.arg.doc).keys)
            \/ ~DocOf(unit.arg.doc).tagsIsList)
              => ~unit.ret.ok
        /\ ~unit.ret.ok =>
              /\ unit.ret.exc.type = "ProductCreationError"
              /\ unit.ret.value = NoMetadata

\* C14 witness: the JSON object lacked the rarity field and the call raised
\* ProductCreationError naming it.
C14_Witness ==
    /\ Called("_extract_metadata") /\ unit.arg.doc = MissingFieldDoc
    /\ unit.arg.layout = "plain"
    /\ ~unit.ret.ok /\ unit.ret.exc.type = "ProductCreationError"
    /\ unit.ret.exc.msg[Len(unit.ret.exc.msg)] = "rarity"

\* The words of C15 and C16, "a chunk carrying inline binary image data", read
\* on the stream itself: any part of the chunk counts.  generate_image does
\* not use these definitions; what it looks at is inspect_chunk (parts[0]).
\* the parts of a chunk that carry inline binary data
ImageParts(chunk) ==
    {i \in 1..Len(chunk.parts) : chunk.parts[i].inline /\ chunk.parts[i].data # ""}

CarriesImage(chunk) == chunk.candidates /\ chunk.content /\ chunk.hasParts /\ ImageParts(chunk) # {}

\* the inline data of the first such part of a chunk
Payload(chunk) ==
    chunk.parts[CHOOSE i \in ImageParts(chunk) : \A j \in ImageParts(chunk) : i <= j].data

\* the position in the stream of the first chunk carrying inline binary
\* data, 0 when there is none
FirstImage(chunks) ==
    IF \A k \in 1..Len(chunks) : ~CarriesImage(chunks[k]) THEN 0
    ELSE CHOOSE k \in 1..Len(chunks) :
            CarriesImage(chunks[k]) /\ \A j \in 1..(k - 1) : ~CarriesImage(chunks[j])

\* C15: first image wins.  For every stream in which some chunk carries
\* inline binary data, generate_image returns after writing the destination
\* file exactly once, with the payload of the first such chunk; the chunks
\* before it are ignored without error and no chunk after it is taken from
\* the stream.
C15_FirstImageWins ==
    (Called("generate_image") /\ FirstImage(unit.arg.stream.chunks) # 0)
    => LET k == FirstImage(unit.arg.stream.chunks)
       IN  /\ unit.ret.ok
           /\ unit.nwrites = 1
           /\ unit.arg.output_path \in DOMAIN unit.fs
           /\ unit.fs[unit.arg.output_path] = RawFile(Payload(unit.arg.stream.chunks[k]))
           /\ Consumed = k

\* C16: when the image stream ends after zero chunks or after chunks none
\* of which carries inline image data, generate_image raises GeminiAPIError
\* saying that no image data was received, and no file exists at the
\* destination path afterwards.
C16_NoImageNoFile ==
    (Called("generate_image") /\ ~unit.arg.stream.fails
        /\ FirstImage(unit.arg.stream.chunks) = 0)
    => /\ ~unit.ret.ok
       /\ unit.ret.exc.type = "GeminiAPIError"
       /\ \E i \in 1..Len(unit.ret.exc.msg) :
              unit.ret.exc.msg[i] = "No image data received from Gemini API"
       /\ unit.arg.output_path \notin DOMAIN unit.fs

\* message m ends with the message c of the exception that caused it
EndsWith(m, c) == Len(m) >= Len(c) /\ SubSeq(m, Len(m) - Len(c) + 1, Len(m)) = c

\* C17: generate_description and generate_image_prompt raise nothing but
\* GeminiAPIError: when the backend raises, returns no response, or returns
\* a response whose text is None or empty, the call raises GeminiAPIError,
\* and its message contains the message of the upstream cause.
C17_OnlyBackendError ==
    (Called("generate_description") \/ Called("generate_image_prompt")) =>
        LET resp == unit.arg.resp
            empty == ~resp.present \/ ~resp.hasText \/ resp.text = <<>>
        IN  /\ ~unit.ret.ok => unit.ret.exc.type = "GeminiAPIError"
            /\ resp.raises =>
                  /\ ~unit.ret.ok
                  /\ Len(resp.err) > 0
                  /\ EndsWith(unit.ret.exc.msg, resp.err)
            /\ (~resp.raises /\ empty) =>
                  /\ ~unit.ret.ok
                  /\ \E m \in {"Empty response from Gemini API for description generation",
                               "Empty response from Gemini API for image prompt generation"} :
                         EndsWith(unit.ret.exc.msg, <<m>>)

\* C17 witness: the transport raised during the image-prompt request and
\* the call raised GeminiAPIError carrying its message.
C17_Witness ==
    /\ Called("generate_image_prompt") /\ unit.arg.resp.raises
    /\ unit.ret.exc = Exc("GeminiAPIError",
                          <<"Failed to generate image prompt: ", "429 quota exceeded">>)

\* the inputs of the call of convert_png_to_jpg: the source is missing, the
\* quality is out of range, the source is not an image
SourceMissing == unit.arg.png_path \notin DOMAIN unit.fs0
BadQuality == unit.arg.quality < MinQuality \/ unit.arg.quality > MaxQuality
SourceCorrupt ==
    ~SourceMissing /\ unit.fs0[unit.arg.png_path].data \notin {"PNG_RGBA", "PNG_RGB"}

\* C18: convert_png_to_jpg called with a quality outside [1,100] raises
\* ValueError and has touched nothing, whether the source exists or not and
\* whatever is at the destination.
C18_BadQualityFirst ==
    (Called("convert_png_to_jpg") /\ BadQuality)
    => /\ ~unit.ret.ok
       /\ unit.ret.exc.type = "ValueError"
       /\ unit.fs = unit.fs0

\* C19: convert_png_to_jpg keeps its three error kinds apart.  It raises
\* nothing but FileNotFoundError, ValueError and ImageConversionError;
\* FileNotFoundError only for a missing source and ValueError only for a
\* quality out of range, both unwrapped (a call with one of these two faults
\* raises the kind of that fault, a call with both raises one of the two);
\* a source that exists and cannot be decoded, with a valid quality, raises
\* ImageConversionError, and nothing else does.
C19_ErrorKindsDistinct ==
    Called("convert_png_to_jpg") =>
        LET kind == unit.ret.exc.type
        IN  /\ ~unit.ret.ok => kind \in {"FileNotFoundError", "ValueError", "ImageConversionError"}
            /\ kind = "FileNotFoundError" => SourceMissing
            /\ kind = "ValueError" => BadQuality
            /\ kind = "ImageConversionError" => (SourceCorrupt /\ ~BadQuality)
            /\ (SourceMissing /\ ~BadQuality) => kind = "FileNotFoundError"
            /\ (BadQuality /\ ~SourceMissing) => kind = "ValueError"
            /\ (SourceMissing /\ BadQuality) => kind \in {"FileNotFoundError", "ValueError"}
            /\ (SourceCorrupt /\ ~BadQuality) => kind = "ImageConversionError"
            /\ unit.ret.ok => ~(SourceMissing \/ BadQuality \/ SourceCorrupt)

\* C19 witness: a source that is not an image was converted with a valid
\* quality and the call raised ImageConversionError.
C19_Witness ==
    /\ Called("convert_png_to_jpg") /\ SourceCorrupt /\ ~BadQuality
    /\ unit.ret.exc.type = "ImageConversionError"
    /\ unit.ret.exc.msg[1] = "Failed to convert PNG to JPG: "

\* C20: convert_png_to_jpg changes the file system only when it succeeds:
\* it then writes the one file at the destination path, in a parent
\* directory it makes when absent; when it fails (missing source, quality
\* out of range, corrupt source) the file system is exactly as before the
\* call, also when the parent directory of the destination did not exist.
C20_FilesystemOnlyOnSuccess ==
    Called("convert_png_to_jpg") =>
        /\ unit.ret.ok =>
              /\ DOMAIN unit.fs = DOMAIN unit.fs0 \cup {unit.arg.jpg_path, parent(unit.arg.jpg_path)}
              /\ \A f \in DOMAIN unit.fs0 \ {unit.arg.jpg_path} : unit.fs[f] = unit.fs0[f]
              /\ unit.fs[unit.arg.jpg_path].fmt = "jpeg"
        /\ ~unit.ret.ok => unit.fs = unit.fs0

\* one session for each set of rows that some session sees: the sessions
\* that see the same rows get the same lists
Readers == {s \in Sessions : \A t \in Sessions : t < s => Visible(t) # Visible(s)}

\* the positions of a row in a list
Positions(seq, row) == {i \in 1..Len(seq) : seq[i] = row}

\* C21: in every state, for every session, get_all_products returns a list
\* (never an error) that holds every committed row exactly once, with
\* created_at descending from one element to the next, strictly when the
\* created_at of the listed rows are all distinct; on an empty store the
\* list is empty.
C21_ListingNewestFirst ==
    \A s \in Readers :
        LET listings == get_all_products(s)
            distinct == \A a, b \in Visible(s) : a # b => a.created_at # b.created_at
        IN  /\ listings # {}
            /\ Visible(s) = {} => listings = {<<>>}
            /\ \A seq \in listings :
                  /\ \A row \in products : Cardinality(Positions(seq, row)) = 1
                  /\ Len(seq) = Cardinality(Visible(s))
                  /\ \A i \in 1..(Len(seq) - 1) : seq[i].created_at >= seq[i + 1].created_at
                  /\ distinct =>
                        \A i \in 1..(Len(seq) - 1) : seq[i].created_at > seq[i + 1].created_at

\* C21 witness: two rows were committed at distinct instants and the reader
\* gets the newer one first.
C21_Witness ==
    /\ Cardinality(products) = 2
    /\ \E seq \in get_all_products(0) :
          /\ Len(seq) = 2
          /\ seq[1].created_at > seq[2].created_at
          /\ seq[1].id > seq[2].id

\* C22: get_product_by_id returns the row whose id is the argument when the
\* table holds one and None otherwise, without raising for a missing id;
\* when the store fails, it and get_all_products raise ProductCreationError
\* with a message that starts with Failed to retrieve; neither changes the
\* table.
C22_RetrievalErrors ==
    /\ Called("get_product_by_id") =>
          LET found == {row \in unit.arg.rows : row.id = unit.arg.product_id}
          IN  /\ unit.ret.rows = unit.arg.rows
              /\ ~unit.arg.store.fails =>
                    /\ unit.ret.ok
                    /\ found # {} => unit.ret.value \in found
                    /\ found = {} => unit.ret.value = NoProduct
              /\ unit.arg.store.fails =>
                    /\ ~unit.ret.ok
                    /\ unit.ret.exc.type = "ProductCreationError"
                    /\ unit.ret.exc.msg[1] = "Failed to retrieve product "
                    /\ EndsWith(unit.ret.exc.msg, unit.arg.store.err)
    /\ Called("get_all_products") =>
          /\ unit.ret.rows = unit.arg.rows
          /\ ~unit.arg.store.fails => unit.ret.ok
          /\ unit.arg.store.fails =>
                /\ ~unit.ret.ok
                /\ unit.ret.exc.type = "ProductCreationError"
                /\ unit.ret.exc.msg[1] = "Failed to retrieve products: "
                /\ EndsWith(unit.ret.exc.msg, unit.arg.store.err)

\* C22 witness: the id asked for is not in a table that holds other rows
\* and the call returned None.
C22_Witness ==
    /\ Called("get_product_by_id")
    /\ unit.arg.rows # {} /\ \A row \in unit.arg.rows : row.id # unit.arg.product_id
    /\ unit.ret.ok /\ unit.ret.value = NoProduct

\* request r has reached the handler
Arrived(r) == pc[r] # "Received"

\* the form value of request r is empty or holds whitespace only
BlankForm(r) == \A i \in 1..Len(app.form[r]) : app.form[r][i] \in {WS, NL}

\* C23: the create route answers an empty or whitespace-only description
\* with 400 and never calls the service for it: no backend call, no row, no
\* file written by that request; it answers 500 when the service raised
\* ProductCreationError and 200 when the service returned a product; it
\* answers 500 in no other case but that of the client not being built.
C23_RouteStatus ==
    \A r \in Runs :
        /\ app.status[r] \in {0, 200, 400, 500}
        /\ (Arrived(r) /\ BlankForm(r)) =>
              /\ app.status[r] = 400
              /\ calls[r] = <<>>
              /\ pending[r] = {} /\ InsertedBy(r) = {}
              /\ \A w \in writes : w.run # r
        /\ app.status[r] = 400 => BlankForm(r)
        /\ (pc[r] = "Failed" /\ Answered(r)) =>
              (raised[r].type = "ProductCreationError" /\ app.status[r] = 500)
        /\ app.status[r] = 500 => (pc[r] = "Failed" \/ (pc[r] = "Errored" /\ ~app.api_key))
        /\ app.status[r] = 200 <=> (Answered(r) /\ pc[r] = "Committed")

\* C23 witness: an empty description was answered with 400, and another
\* request was answered with 200 after its product was committed.
C23_Witness ==
    \E r, q \in Runs :
        /\ app.form[r] = <<>> /\ pc[r] = "Rejected" /\ app.status[r] = 400 /\ calls[r] = <<>>
        /\ app.status[q] = 200 /\ pc[q] = "Committed" /\ products # {}

\* run r has called db.rollback()
RollbackDone(r) == \E i \in 1..Len(calls[r]) : calls[r][i].op = "rollback"

\* C24: a run that fails in the flush of step 4, in the commit of step 7 or
\* in the reload of the record after the commit raises the unclassified
\* failure (Product creation failed), and no row it inserted is visible to
\* any reader afterwards.
C24_StoreFailureLeavesNoRow ==
    \A r \in Runs :
        (pc[r] = "Failed" /\ failedAt[r] \in {4, 7}) =>
            /\ raised[r].type = "ProductCreationError"
            /\ raised[r].msg[1] = "Product creation failed: "
            /\ \A s \in Sessions : InsertedBy(r) \cap Visible(s) = {}

\* C25: every run that has terminated has performed exactly one of commit
\* and rollback on its session, never both: commit exactly when it returned
\* a product, rollback exactly when it raised, also when it failed in steps
\* 1 to 3.
C25_CommitXorRollback ==
    \A r \in Runs :
        Terminated(r) =>
            /\ CommitDone(r) # RollbackDone(r)
            /\ CommitDone(r) <=> pc[r] = "Committed"
            /\ RollbackDone(r) <=> pc[r] = "Failed"

\* the states of one invocation in the order of the pipeline
PipelineStates ==
    <<"Start", "DescriptionGenerated", "ImagePromptGenerated", "MetadataExtracted",
      "Flushing", "RecordReserved", "TimestampRead", "ImageGenerated", "ImageConverted",
      "RowCommitted", "Committed", "Failed">>

Rank(state) == CHOOSE i \in 1..Len(PipelineStates) : PipelineStates[i] = state

\* C26: when every call eventually returns or raises, every invocation
\* eventually reaches Committed or Failed; a run in Committed or in Failed
\* stays there, and every change of state moves forward in the pipeline, so
\* no state is entered twice.
C26_Terminates ==
    /\ <>(\A r \in Runs : Terminated(r))
    /\ [][\A r \in Runs :
            /\ Terminated(r) => pc'[r] = pc[r]
            /\ pc'[r] # pc[r] => Rank(pc[r]) < Rank(pc'[r])]_vars

C26_Witness ==
    /\ \E r \in Runs : pc[r] = "Committed"
    /\ \E r \in Runs : pc[r] = "Failed" /\ failedAt[r] = 6

\* C27: no step removes a file: the set of paths in the file system only
\* grows; when a run commits, its .png and its .jpg are both present; when
\* a run fails in step 6, the .png it wrote in step 5 is still present and
\* no committed row has the id of its record.
C27_FilesOnlyGrow ==
    [][/\ DOMAIN files \subseteq DOMAIN files'
       /\ \A r \in Runs :
            /\ (pc[r] # pc'[r] /\ pc'[r] \in {"RowCommitted", "Committed"}) =>
                   {png_path(r), jpg_path(r)} \subseteq DOMAIN files'
            /\ (pc[r] = "ImageGenerated" /\ pc'[r] = "Failed") =>
                   /\ png_path(r) \in DOMAIN files'
                   /\ \A row \in products' : row.id # product[r].id]_vars

C27_Witness ==
    \E r, q \in Runs :
        /\ pc[r] = "Failed" /\ failedAt[r] = 6
        /\ \E w \in writes : w.run = r /\ w.path.ext = "png" /\ w.path \in DOMAIN files
        /\ pc[q] = "Committed"
        /\ {png_path(q), jpg_path(q)} \subseteq DOMAIN files

\* C28: after a successful creation the converted image is served by the
\* application at the URL stored in image_path, whether or not the image
\* directory existed when the application started.
C28_ImageServed ==
    \A r \in Runs :
        pc[r] = "Committed" =>
            /\ product[r].image_path = web_path(r)
            /\ Served(product[r].image_path)

\* C29: whenever generate_description or generate_image_prompt returns
\* without raising, the text it returns is not empty, whatever text the
\* backend sent, text of whitespace only included.
C29_ReturnedTextNotEmpty ==
    ((Called("generate_description") \/ Called("generate_image_prompt")) /\ unit.ret.ok) =>
        unit.ret.value # <<>>

\* C30: created_at is fixed in the insert and flush of step 4: the record
\* gets the clock read when the flush builds the INSERT, keeps it while the
\* statement runs and through steps 5 to 7, the committed row carries it
\* whatever the time of the commit, and a committed row never changes.
C30_CreatedAtFixedAtReservation ==
    [][/\ products \subseteq products'
       /\ \A r \in Runs :
            /\ (pc[r] = "MetadataExtracted" /\ pc'[r] = "Flushing") =>
                   product'[r].created_at = clock
            /\ (pc[r] \in {"Flushing", "RecordReserved", "TimestampRead", "ImageGenerated",
                           "ImageConverted", "RowCommitted"}
                    /\ pc'[r] # "Failed") =>
                   product'[r].created_at = product[r].created_at
            /\ (writer = r /\ pc'[r] # pc[r]) =>
                   \A row \in products' \ products :
                       row.created_at = product[r].created_at]_vars

\* the committed row with the greatest id: the store hands out increasing
\* ids to the rows it commits one after the other
LastCommitted(rows) == CHOOSE row \in rows : \A other \in rows : other.id <= row.id

\* a listing of the committed rows in which the row committed last comes
\* after a row with a later created_at: its flush began first and waited
C30_Witness ==
    \E r \in Runs :
        /\ pc[r] = "Committed"
        /\ product[r] = LastCommitted(products)
        /\ \E l \in get_all_products(0) :
               Len(l) = 2 /\ l[2] = product[r] /\ l[1].created_at > product[r].created_at
====
